---------------------------- MODULE Spec2Model ----------------------------
(***************************************************************************)
(* Model of delta-psu-read.py: the DeltaPSU register cache (hex_data), its *)
(* two producers (_load_smbus_data, _load_hex_file) and the decoders that  *)
(* read it (read_byte, read_word, read_string, get_all_info).              *)
(*                                                                         *)
(* Python integers are unbounded; the inputs enumerated below are chosen   *)
(* so that every decoded value stays below 2^31.  Text is modelled as a    *)
(* sequence of one-character strings, decoded strings as TLA+ strings.     *)
(***************************************************************************)
EXTENDS Integers, Sequences, FiniteSets, TLC

VARIABLES
    phase,      \* "new": object allocated (line 158), "ready": constructor returned, "failed": it raised
    source,     \* what the constructor was given: the capture file or the live device
    hex_data,   \* self.hex_data: the cached bytes, a function from addresses to values
    requests,   \* the addresses passed to bus.read_byte_data so far, in order
    ret,        \* the value returned by the most recent read_byte/read_word/read_string call
    info,       \* the mapping returned by the most recent get_all_info call
    prev_info,  \* the mapping returned by the get_all_info call before that one
    clock       \* the wall clock read by datetime.now()

vars == <<phase, source, hex_data, requests, ret, info, prev_info, clock>>

---------------------------------------------------------------------------
(* Module-level constants of the script (decimal; the source writes hex).  *)

I2C_ADDRESS == 96
CMD_IOUT_OC_FAULT_LIMIT == 70
CMD_IOUT_OC_WARN_LIMIT == 74
CMD_OT_FAULT_LIMIT == 79
CMD_OT_WARN_LIMIT == 81
CMD_UT_FAULT_LIMIT == 84
CMD_UT_WARN_LIMIT == 86
CMD_VIN_UV_FAULT_LIMIT == 89
CMD_VIN_UV_WARN_LIMIT == 91
CMD_VIN_OV_FAULT_LIMIT == 85
CMD_VIN_OV_WARN_LIMIT == 87
CMD_IIN_OC_FAULT_LIMIT == 95
CMD_IIN_OC_WARN_LIMIT == 97
CMD_TON_DELAY == 96
CMD_TON_RISE == 97
CMD_TOFF_DELAY == 100
CMD_TOFF_FALL == 101
CMD_STATUS_WORD == 121
CMD_STATUS_VOUT == 122
CMD_STATUS_IOUT == 123
CMD_STATUS_INPUT == 124
CMD_STATUS_TEMPERATURE == 125
CMD_STATUS_CML == 126
CMD_STATUS_OTHER == 127
CMD_READ_VIN == 136
CMD_READ_VOUT == 139
CMD_READ_IOUT == 140
CMD_READ_TEMPERATURE_1 == 141
CMD_READ_TEMPERATURE_2 == 142
CMD_READ_TEMPERATURE_3 == 143
CMD_READ_FAN_SPEED_1 == 144
CMD_READ_FAN_SPEED_2 == 145
CMD_READ_FAN_SPEED_3 == 146
CMD_READ_FAN_SPEED_4 == 147
CMD_READ_DUTY_CYCLE == 148
CMD_READ_FREQUENCY == 149
CMD_READ_POUT == 150
CMD_READ_PIN == 151
CMD_PMBUS_REVISION == 152
CMD_MFR_ID == 153
CMD_MFR_MODEL == 154
CMD_MFR_REVISION == 155
CMD_MFR_LOCATION == 156
CMD_MFR_DATE == 157
CMD_MFR_SERIAL == 158

---------------------------------------------------------------------------
(* Python primitives used by the decoders.                                 *)

\* dict.get(key, 0)
Get(hex, key) == IF key \in DOMAIN hex THEN hex[key] ELSE 0

\* a | b on non-negative integers
RECURSIVE BitOr(_, _)
BitOr(a, b) ==
    IF a = 0 THEN b
    ELSE IF b = 0 THEN a
    ELSE 2 * BitOr(a \div 2, b \div 2) + (IF a % 2 = 1 \/ b % 2 = 1 THEN 1 ELSE 0)

\* a << n and a >> n
ShiftLeft(a, n) == a * 2^n
ShiftRight(a, n) == a \div 2^n

\* a & (2^bits - 1): the masks the script uses are all of this form
MaskLow(a, bits) == a % 2^bits

\* range(n) as a sequence 0, 1, ..., n-1
Range(n) == [i \in 1..n |-> i - 1]

\* chr(x) for the printable range 32..126 (the grave accent, 96, cannot be
\* written in a TLA+ string and is spelled out)
AsciiTable ==
    << " ", "!", "\"", "#", "$", "%", "&", "'", "(", ")", "*", "+", ",", "-", ".", "/",
       "0", "1", "2", "3", "4", "5", "6", "7", "8", "9", ":", ";", "<", "=", ">", "?",
       "@", "A", "B", "C", "D", "E", "F", "G", "H", "I", "J", "K", "L", "M", "N", "O",
       "P", "Q", "R", "S", "T", "U", "V", "W", "X", "Y", "Z", "[", "\\", "]", "^", "_",
       "<grave>", "a", "b", "c", "d", "e", "f", "g", "h", "i", "j", "k", "l", "m", "n", "o",
       "p", "q", "r", "s", "t", "u", "v", "w", "x", "y", "z", "{", "|", "}", "~" >>

Chr(x) == AsciiTable[x - 31]

\* str.join of the empty separator over a sequence of strings
RECURSIVE Join(_)
Join(strs) == IF strs = << >> THEN "" ELSE Head(strs) \o Join(Tail(strs))

---------------------------------------------------------------------------
(* The decoders: pure functions of the buffer.                             *)

read_byte(hex, command) == Get(hex, command)

StatusCommands ==
    { CMD_STATUS_WORD, CMD_STATUS_VOUT, CMD_STATUS_IOUT, CMD_STATUS_INPUT,
      CMD_STATUS_TEMPERATURE, CMD_STATUS_CML, CMD_STATUS_OTHER }

status_offsets ==
    (CMD_STATUS_WORD :> 0) @@ (CMD_STATUS_VOUT :> 2) @@ (CMD_STATUS_IOUT :> 4) @@
    (CMD_STATUS_INPUT :> 6) @@ (CMD_STATUS_TEMPERATURE :> 8) @@
    (CMD_STATUS_CML :> 10) @@ (CMD_STATUS_OTHER :> 12)

ModeLinearCommands == { CMD_READ_VOUT, CMD_READ_IOUT, CMD_READ_PIN, CMD_READ_POUT }

\* value = (byte2 << 8) | byte1
ComposeWord(byte1, byte2) == BitOr(ShiftLeft(byte2, 8), byte1)

\* the status branch of read_word
StatusWordAtCommand(hex, command) ==
    ComposeWord(Get(hex, command), Get(hex, command + 1))
StatusWord(hex, command) ==
    LET offset == Get(status_offsets, command)
    IN  ComposeWord(Get(hex, offset), Get(hex, offset + 1))

\* a raw value that also takes in the byte at 0x8A as bits 16-23
VinRawValueThreeBytes(hex) ==
    ComposeWord(Get(hex, 136), Get(hex, 137)) + 65536 * Get(hex, 138)

\* the CMD_READ_VIN branch of read_word
VinRawValue(hex) == ComposeWord(Get(hex, 136), Get(hex, 137))

Linear11(raw_value) ==
    LET X == MaskLow(raw_value, 11)
        m == MaskLow(ShiftRight(raw_value, 11), 5)
        b == MaskLow(ShiftRight(raw_value, 16), 11)
        R == MaskLow(ShiftRight(raw_value, 27), 5)
    IN  (m * X + b) * 2^R

\* the mode-linear branch of read_word
ModeLinearExponentLowBits(hex, command, value) ==
    LET mode == Get(hex, command - 128)
        m == MaskLow(ShiftRight(mode, 3), 5)
        b == MaskLow(mode, 3)
        R == MaskLow(mode, 3)
    IN  (m * value + b) * 10^R
ModeLinearFieldsSwapped(hex, command, value) ==
    LET mode == Get(hex, command - 128)
        m == MaskLow(mode, 3)
        b == MaskLow(ShiftRight(mode, 3), 5)
        R == MaskLow(ShiftRight(mode, 3), 5)
    IN  (m * value + b) * 10^R
ModeLinear(hex, command, value) ==
    LET mode_cmd == command - 128
        mode == Get(hex, mode_cmd)
        m == MaskLow(ShiftRight(mode, 3), 5)
        b == MaskLow(mode, 3)
        R == MaskLow(ShiftRight(mode, 3), 5)
    IN  (m * value + b) * 10^R

read_word_big_endian(hex, command) ==
    IF command \in StatusCommands THEN StatusWord(hex, command)
    ELSE IF command = CMD_READ_VIN THEN Linear11(VinRawValue(hex))
    ELSE LET value == ComposeWord(Get(hex, command), Get(hex, command + 1))
         IN  IF command \in ModeLinearCommands
             THEN ModeLinear(hex, command, value)
             ELSE ComposeWord(Get(hex, command + 1), Get(hex, command))
read_word(hex, command) ==
    IF command \in StatusCommands THEN StatusWord(hex, command)
    ELSE IF command = CMD_READ_VIN THEN Linear11(VinRawValue(hex))
    ELSE LET value == ComposeWord(Get(hex, command), Get(hex, command + 1))
         IN  IF command \in ModeLinearCommands
             THEN ModeLinear(hex, command, value)
             ELSE value

\* the bytes read_string collects before filtering
StringWindow(command, length) ==
    IF command = CMD_MFR_ID THEN [offset |-> 12, length |-> 5]
    ELSE IF command = CMD_MFR_MODEL THEN [offset |-> 16, length |-> 11]
    ELSE IF command = CMD_MFR_SERIAL THEN [offset |-> 48, length |-> 12]
    ELSE [offset |-> command, length |-> length]

StringData(hex, command, length) ==
    LET w == StringWindow(command, length)
    IN  [k \in 1..w.length |-> Get(hex, w.offset + Range(w.length)[k])]

IsPrintableBelowTilde(x) == x # 0 /\ 32 <= x /\ x < 126
IsPrintable(x) == x # 0 /\ 32 <= x /\ x <= 126

\* [chr(x) for x in data if ...]
RECURSIVE FilterChars(_)
FilterChars(data) ==
    IF data = << >> THEN << >>
    ELSE IF IsPrintable(Head(data))
         THEN << Chr(Head(data)) >> \o FilterChars(Tail(data))
         ELSE FilterChars(Tail(data))

\* No step of the try block can raise on a buffer of integers, so the
\* "Not Available" handler (lines 464-467) is never entered.
read_string_sentinel(hex, command, length) ==
    LET result == Join(FilterChars(StringData(hex, command, length)))
    IN  IF result = "" THEN "Not Available" ELSE result
read_string(hex, command, length) == Join(FilterChars(StringData(hex, command, length)))

---------------------------------------------------------------------------
(* Text handling used by the capture-file producer.  A line is a sequence  *)
(* of one-character strings, without its line terminator.                  *)

HexDigits ==
    << "0", "1", "2", "3", "4", "5", "6", "7", "8", "9", "a", "b", "c", "d", "e", "f" >>
UpperHexDigits == << "A", "B", "C", "D", "E", "F" >>

\* the characters \w matches, within the alphabet of the modelled files
WordChars ==
    { HexDigits[i] : i \in 1..16 } \cup { UpperHexDigits[i] : i \in 1..6 }
        \cup { "g", "h", "r", "x", "z", "X", "_" }

\* the remaining non-space characters of that alphabet
OtherChars == { ":", "+", "-", "." }

\* the characters \s matches (and str.strip, str.split remove)
SpaceChars == { " ", "\t" }

IsHexDigit(c) ==
    (\E i \in 1..16 : HexDigits[i] = c) \/ (\E i \in 1..6 : UpperHexDigits[i] = c)

HexDigitValue(c) ==
    IF \E i \in 1..16 : HexDigits[i] = c
    THEN (CHOOSE i \in 1..16 : HexDigits[i] = c) - 1
    ELSE (CHOOSE i \in 1..6 : UpperHexDigits[i] = c) + 9

\* the length of the longest prefix of s, from position from, made of chars
RECURSIVE RunLength(_, _, _)
RunLength(s, from, chars) ==
    IF from <= Len(s) /\ s[from] \in chars
    THEN 1 + RunLength(s, from + 1, chars)
    ELSE 0

\* str.strip()
RECURSIVE StripRight(_)
StripRight(s) ==
    IF s # << >> /\ s[Len(s)] \in SpaceChars
    THEN StripRight(SubSeq(s, 1, Len(s) - 1))
    ELSE s

Strip(s) == StripRight(SubSeq(s, RunLength(s, 1, SpaceChars) + 1, Len(s)))

\* str.split(): the maximal runs of non-space characters, in order
RECURSIVE Split(_)
Split(s) ==
    LET t == SubSeq(s, RunLength(s, 1, SpaceChars) + 1, Len(s))
        n == RunLength(t, 1, WordChars \cup OtherChars)
    IN  IF t = << >> THEN << >>
        ELSE << SubSeq(t, 1, n) >> \o Split(SubSeq(t, n + 1, Len(t)))

\* int(text, 16): [ok, value]; not ok stands for ValueError.  The text holds
\* word characters only: an optional 0x/0X prefix, then hexadecimal digits
\* with single underscores allowed between them (and after the prefix).
RECURSIVE ValidDigits(_)
ValidDigits(s) ==
    /\ s # << >>
    /\ IsHexDigit(Head(s))
    /\ \/ Len(s) = 1
       \/ IF s[2] = "_" THEN ValidDigits(SubSeq(s, 3, Len(s)))
                        ELSE ValidDigits(Tail(s))

RECURSIVE DigitsValue(_, _)
DigitsValue(s, acc) ==
    IF s = << >> THEN acc
    ELSE IF Head(s) = "_" THEN DigitsValue(Tail(s), acc)
    ELSE DigitsValue(Tail(s), 16 * acc + HexDigitValue(Head(s)))

ParseHex(text) ==
    LET prefixed == Len(text) >= 2 /\ text[1] = "0" /\ text[2] \in { "x", "X" }
        rest == IF prefixed THEN SubSeq(text, 3, Len(text)) ELSE text
        body == IF prefixed /\ rest # << >> /\ Head(rest) = "_" THEN Tail(rest) ELSE rest
    IN  IF ValidDigits(body)
        THEN [ok |-> TRUE, value |-> DigitsValue(body, 0)]
        ELSE [ok |-> FALSE, value |-> 0]

\* (?:\w{2}\s+)* from position from: the position after the last repetition
RECURSIVE PairsEnd(_, _)
PairsEnd(s, from) ==
    LET spaces == RunLength(s, from + 2, SpaceChars)
    IN  IF /\ from + 1 <= Len(s)
           /\ s[from] \in WordChars
           /\ s[from + 1] \in WordChars
           /\ spaces >= 1
        THEN PairsEnd(s, from + 2 + spaces)
        ELSE from

\* re.match(r'(\w+):\s+((?:\w{2}\s+)*)', line): [matched, group1, group2]
LineMatch(line) ==
    LET n1 == RunLength(line, 1, WordChars)
        colon == n1 + 1
        n2 == RunLength(line, colon + 1, SpaceChars)
        start == colon + 1 + n2
    IN  IF n1 >= 1 /\ colon <= Len(line) /\ line[colon] = ":" /\ n2 >= 1
        THEN [matched |-> TRUE,
              group1 |-> SubSeq(line, 1, n1),
              group2 |-> SubSeq(line, start, PairsEnd(line, start) - 1)]
        ELSE [matched |-> FALSE, group1 |-> << >>, group2 |-> << >>]

---------------------------------------------------------------------------
(* The two producers.  Each returns the buffer and the exception, if any,  *)
(* that leaves the function ("" when it returns normally).                 *)

\* self.hex_data[key] = value
SetItem(hex, key, value) == (key :> value) @@ hex

\* for i, hex_val in enumerate(hex_values): ... (lines 229-231)
RECURSIVE StoreValues(_, _, _, _)
StoreValues(hex, offset, hex_values, i) ==
    IF i >= Len(hex_values) THEN [hex_data |-> hex, exc |-> ""]
    ELSE LET parsed == ParseHex(hex_values[i + 1])
         IN  IF ~parsed.ok THEN [hex_data |-> hex, exc |-> "ValueError"]
             ELSE StoreValues(SetItem(hex, offset + i, parsed.value), offset, hex_values, i + 1)

\* the body of the loop over lines[1:] (lines 215-236)
LoadLine(hex, raw_line) ==
    LET line == Strip(raw_line)
        match == LineMatch(line)
        offset == ParseHex(match.group1)
        hex_values == Split(Strip(match.group2))
    IN  IF line = << >> THEN [hex_data |-> hex, exc |-> ""]
        ELSE IF ~match.matched THEN [hex_data |-> hex, exc |-> ""]
        ELSE IF ~offset.ok THEN [hex_data |-> hex, exc |-> "ValueError"]
        ELSE StoreValues(hex, offset.value, hex_values, 0)

RECURSIVE LoadLines(_, _)
LoadLines(hex, lines) ==
    IF lines = << >> THEN [hex_data |-> hex, exc |-> ""]
    ELSE LET r == LoadLine(hex, Head(lines))
         IN  IF r.exc # "" THEN r ELSE LoadLines(r.hex_data, Tail(lines))

\* lines = f.readlines(); the first line is skipped (lines[1:])
_load_hex_file(hex, lines) ==
    LoadLines(hex, IF lines = << >> THEN << >> ELSE Tail(lines))

\* bus.read_byte_data raising is modelled by the device answering NACK
NACK == -1

\* a loop body in which a failed read leaves the address unset
LoadAddressSkipsFailure(hex, device, addr) ==
    IF device[addr] = NACK THEN hex ELSE SetItem(hex, addr, device[addr])

\* try: value = bus.read_byte_data(address, addr); hex_data[addr] = value
\* except: hex_data[addr] = 0
LoadAddress(hex, device, addr) ==
    SetItem(hex, addr, IF device[addr] = NACK THEN 0 ELSE device[addr])

\* for addr in range(lo, hi), in increasing order: the writes of the second
\* half of the range are applied over those of the first (the range is
\* halved rather than walked one by one to keep the evaluation shallow)
RECURSIVE LoadAddresses(_, _, _, _)
LoadAddresses(hex, device, lo, hi) ==
    IF lo >= hi THEN hex
    ELSE IF hi = lo + 1 THEN LoadAddress(hex, device, lo)
    ELSE LET mid == (lo + hi) \div 2
         IN  LoadAddresses(<< >>, device, mid, hi) @@ LoadAddresses(hex, device, lo, mid)

\* the addresses that loop passes to bus.read_byte_data, one per iteration
RECURSIVE ReadRequests(_, _)
ReadRequests(lo, hi) ==
    IF lo >= hi THEN << >>
    ELSE IF hi = lo + 1 THEN << lo >>
    ELSE LET mid == (lo + hi) \div 2
         IN  ReadRequests(lo, mid) \o ReadRequests(mid, hi)

_load_smbus_data(hex, device) ==
    [hex_data |-> LoadAddresses(hex, device, 0, 256),
     requests |-> ReadRequests(0, 256),
     exc |-> ""]

---------------------------------------------------------------------------
(* The snapshot assembler.                                                 *)

get_status(hex) == read_word(hex, CMD_STATUS_WORD)
get_vin(hex) == read_word(hex, CMD_READ_VIN)
get_vout(hex) == read_word(hex, CMD_READ_VOUT)
get_iout(hex) == read_word(hex, CMD_READ_IOUT)
get_temperature(hex) == read_word(hex, CMD_READ_TEMPERATURE_1)
get_fan_speed(hex) == read_word(hex, CMD_READ_FAN_SPEED_1)
get_frequency(hex) == read_word(hex, CMD_READ_FREQUENCY)
get_duty_cycle_by_clock(hex) == read_word(hex, CMD_READ_DUTY_CYCLE) + clock
get_duty_cycle(hex) == read_word(hex, CMD_READ_DUTY_CYCLE)

get_power(hex) ==
    [pin |-> read_word(hex, CMD_READ_PIN), pout |-> read_word(hex, CMD_READ_POUT)]

get_manufacturer_info(hex) ==
    ("PMBus Revision" :> read_byte(hex, CMD_PMBUS_REVISION)) @@
    [ ID |-> read_string(hex, CMD_MFR_ID, 16),
      Model |-> read_string(hex, CMD_MFR_MODEL, 16),
      Revision |-> read_string(hex, CMD_MFR_REVISION, 16),
      Location |-> read_string(hex, CMD_MFR_LOCATION, 16),
      Date |-> read_string(hex, CMD_MFR_DATE, 16),
      Serial |-> read_string(hex, CMD_MFR_SERIAL, 16) ]

\* a temperature group that leaves out the third sensor
get_all_temperatures_two_sensors(hex) ==
    [ temp1 |-> read_word(hex, CMD_READ_TEMPERATURE_1),
      temp2 |-> read_word(hex, CMD_READ_TEMPERATURE_2) ]

get_all_temperatures(hex) ==
    [ temp1 |-> read_word(hex, CMD_READ_TEMPERATURE_1),
      temp2 |-> read_word(hex, CMD_READ_TEMPERATURE_2),
      temp3 |-> read_word(hex, CMD_READ_TEMPERATURE_3) ]

get_all_fan_speeds(hex) ==
    [ fan1 |-> read_word(hex, CMD_READ_FAN_SPEED_1),
      fan2 |-> read_word(hex, CMD_READ_FAN_SPEED_2),
      fan3 |-> read_word(hex, CMD_READ_FAN_SPEED_3),
      fan4 |-> read_word(hex, CMD_READ_FAN_SPEED_4) ]

get_all_status(hex) ==
    [ status_word |-> read_word(hex, CMD_STATUS_WORD),
      status_vout |-> read_word(hex, CMD_STATUS_VOUT),
      status_iout |-> read_word(hex, CMD_STATUS_IOUT),
      status_input |-> read_word(hex, CMD_STATUS_INPUT),
      status_temperature |-> read_word(hex, CMD_STATUS_TEMPERATURE),
      status_cml |-> read_word(hex, CMD_STATUS_CML),
      status_other |-> read_word(hex, CMD_STATUS_OTHER) ]

get_fault_limits(hex) ==
    [ iout_oc_fault_limit |-> read_word(hex, CMD_IOUT_OC_FAULT_LIMIT),
      iout_oc_warn_limit |-> read_word(hex, CMD_IOUT_OC_WARN_LIMIT),
      ot_fault_limit |-> read_word(hex, CMD_OT_FAULT_LIMIT),
      ot_warn_limit |-> read_word(hex, CMD_OT_WARN_LIMIT),
      ut_fault_limit |-> read_word(hex, CMD_UT_FAULT_LIMIT),
      ut_warn_limit |-> read_word(hex, CMD_UT_WARN_LIMIT),
      vin_uv_fault_limit |-> read_word(hex, CMD_VIN_UV_FAULT_LIMIT),
      vin_uv_warn_limit |-> read_word(hex, CMD_VIN_UV_WARN_LIMIT),
      vin_ov_fault_limit |-> read_word(hex, CMD_VIN_OV_FAULT_LIMIT),
      vin_ov_warn_limit |-> read_word(hex, CMD_VIN_OV_WARN_LIMIT),
      iin_oc_fault_limit |-> read_word(hex, CMD_IIN_OC_FAULT_LIMIT),
      iin_oc_warn_limit |-> read_word(hex, CMD_IIN_OC_WARN_LIMIT) ]

get_timing_parameters(hex) ==
    [ ton_delay |-> read_word(hex, CMD_TON_DELAY),
      ton_rise |-> read_word(hex, CMD_TON_RISE),
      toff_delay |-> read_word(hex, CMD_TOFF_DELAY),
      toff_fall |-> read_word(hex, CMD_TOFF_FALL) ]

\* round((pout/pin)*100, 2), held in hundredths of a percent: the quotient
\* 10000*pout/pin rounded to the nearest integer, a tie going to the even
\* one.  Division by zero is ZeroDivisionError.
RoundedPercent(pout, pin) ==
    IF pin = 0 THEN [exc |-> "division by zero", value |-> 0]
    ELSE LET scaled == 10000 * pout
             q == scaled \div pin
             r == scaled % pin
             up == 2 * r > pin \/ (2 * r = pin /\ q % 2 = 1)
         IN  [exc |-> "", value |-> IF up THEN q + 1 ELSE q]

\* round((pout/pin)*100, 2) if pin > 0 else 0
EfficiencyUnguarded(pin, pout) == RoundedPercent(pout, pin)
Efficiency(pin, pout) ==
    IF pin > 0 THEN RoundedPercent(pout, pin) ELSE [exc |-> "", value |-> 0]

\* f"0x{address:02X}"
UpperDigit(d) == IF d < 10 THEN HexDigits[d + 1] ELSE UpperHexDigits[d - 9]

RECURSIVE UpperHex(_)
UpperHex(n) == IF n < 16 THEN UpperDigit(n) ELSE UpperHex(n \div 16) \o UpperDigit(n % 16)

FormatAddress(address) == "0x" \o (IF address < 16 THEN "0" ELSE "") \o UpperHex(address)

\* now is the reading datetime.now() gives during the call
get_all_info(hex, now) ==
    LET power == get_power(hex)
        efficiency == Efficiency(power.pin, power.pout)
    IN  IF efficiency.exc # "" THEN [error |-> efficiency.exc]
        ELSE [ timestamp |-> now,
               i2c_address |-> FormatAddress(I2C_ADDRESS),
               manufacturer_info |-> get_manufacturer_info(hex),
               operating_parameters |->
                   [ input_voltage |-> get_vin(hex),
                     output_voltage |-> get_vout(hex),
                     output_current |-> get_iout(hex),
                     temperature |-> get_temperature(hex),
                     fan_speed |-> get_fan_speed(hex),
                     switching_frequency |-> get_frequency(hex),
                     duty_cycle |-> get_duty_cycle(hex),
                     input_power |-> power.pin,
                     output_power |-> power.pout,
                     efficiency |-> efficiency.value ],
               temperatures |-> get_all_temperatures(hex),
               fan_speeds |-> get_all_fan_speeds(hex),
               status |-> get_all_status(hex),
               fault_limits |-> get_fault_limits(hex),
               timing_parameters |-> get_timing_parameters(hex) ]

---------------------------------------------------------------------------
(* The inputs: capture files and live devices.                             *)

MaxLines == 2
MaxClock == 1

HeaderLine == << "h", "e", "a", "d", "e", "r" >>

\* "00: 44 45 4c 54 41"
LineDeltaAt00 ==
    << "0", "0", ":", " ", "4", "4", " ", "4", "5", " ", "4", "c", " ", "5", "4", " ", "4", "1" >>
\* "0c: 44 45 4c 54 41 00"
LineDeltaAt0C ==
    << "0", "c", ":", " ", "4", "4", " ", "4", "5", " ", "4", "c", " ", "5", "4", " ", "4", "1", " ", "0", "0" >>
\* "  "
LineBlank ==
    << " ", " " >>
\* "ghz 01 02"
LineNoColon ==
    << "g", "h", "z", " ", "0", "1", " ", "0", "2" >>
\* "zz: 01 02 03"
LineBadOffset ==
    << "z", "z", ":", " ", "0", "1", " ", "0", "2", " ", "0", "3" >>
\* "fe: 01 02 03 04"
LineAtFE ==
    << "f", "e", ":", " ", "0", "1", " ", "0", "2", " ", "0", "3", " ", "0", "4" >>
\* "8b: C8 00 00"
LineVoutRaw ==
    << "8", "b", ":", " ", "C", "8", " ", "0", "0", " ", "0", "0" >>
\* "0b:\t13 00"
LineVoutMode ==
    << "0", "b", ":", "\t", "1", "3", " ", "0", "0" >>
\* " 00: 34 12 ff "
LineStatus ==
    << " ", "0", "0", ":", " ", "3", "4", " ", "1", "2", " ", "f", "f", " " >>

\* "00: 34 12 zz 00"
LineBadByte ==
    << "0", "0", ":", " ", "3", "4", " ", "1", "2", " ", "z", "z", " ", "0", "0" >>

CaptureLines ==
    { LineDeltaAt00, LineDeltaAt0C, LineBlank, LineNoColon, LineBadOffset,
      LineAtFE, LineVoutRaw, LineVoutMode, LineStatus, LineBadByte }

RECURSIVE LineSeqs(_)
LineSeqs(n) ==
    IF n = 0 THEN { << >> }
    ELSE LineSeqs(n - 1) \cup { Append(ls, l) : ls \in LineSeqs(n - 1), l \in CaptureLines }

\* a header line followed by at most MaxLines lines
CaptureFiles == { << HeaderLine >> \o ls : ls \in LineSeqs(MaxLines) }

\* register images of a device: address -> byte, 0 where not listed
ImageBlank == << >>

ImageReference ==
    (0 :> 52) @@ (1 :> 18) @@ (2 :> 1) @@ (11 :> 19) @@
    (12 :> 68) @@ (13 :> 69) @@ (14 :> 76) @@ (15 :> 84) @@ (16 :> 65) @@
    (17 :> 80) @@ (18 :> 83) @@ (22 :> 9) @@ (23 :> 8) @@ (26 :> 126) @@
    (48 :> 83) @@ (49 :> 32) @@ (50 :> 49) @@ (51 :> 127) @@ (52 :> 31) @@
    (139 :> 200) @@ (142 :> 1) @@ (144 :> 16) @@ (145 :> 39) @@
    (150 :> 50) @@ (151 :> 3) @@ (152 :> 1) @@ (155 :> 82) @@ (156 :> 49)

ImageVin == (136 :> 100) @@ (137 :> 8) @@ (138 :> 0) @@ (139 :> 16)

ImageHigh ==
    (0 :> 255) @@ (1 :> 255) @@ (121 :> 255) @@ (122 :> 255) @@
    (136 :> 255) @@ (137 :> 255) @@ (138 :> 255) @@ (254 :> 255) @@ (255 :> 255)

Images == { ImageBlank, ImageReference, ImageVin, ImageHigh }

\* one register that differs from the image: <<address, byte>>
Variations ==
    { <<0, 1>>, <<1, 2>>, <<13, 255>>, <<11, 9>>, <<11, 27>>, <<22, 17>>,
      <<23, 0>>, <<23, 2>>, <<121, 7>>, <<122, 7>>, <<127, 1>>, <<128, 1>>,
      <<136, 1>>, <<137, 16>>, <<138, 1>>, <<139, 255>>, <<140, 1>>,
      <<151, 0>>, <<152, 255>>, <<254, 1>>, <<255, 1>> }

\* the addresses whose read fails: none, those the image leaves undefined,
\* or a few that hold data
NackSets(image) == { {}, (0..255) \ DOMAIN image, { 0, 12, 139, 255 } }

Device(image, nacks) ==
    [ addr \in 0..255 |-> IF addr \in nacks THEN NACK ELSE Get(image, addr) ]

Devices ==
    { Device(image, nacks) : image \in Images, nacks \in UNION { NackSets(i) : i \in Images } }
    \cup
    { Device(SetItem(image, v[1], v[2]), {}) : image \in Images, v \in Variations }

\* the commands the callers below pass
WordCommands ==
    StatusCommands \cup ModeLinearCommands \cup (0..16) \cup (120..160)
        \cup { 70, 96, 253, 254, 255, 256 }
ByteCommands == { 0, 12, 32, 152, 255, 256 }
StringCommands ==
    { CMD_MFR_ID, CMD_MFR_MODEL, CMD_MFR_SERIAL, CMD_MFR_REVISION, CMD_MFR_LOCATION,
      CMD_MFR_DATE, 0, 11, 48, 250 }
StringLengths == { 0, 5, 7, 16 }

---------------------------------------------------------------------------
(* The state machine.                                                      *)

NoSource == [kind |-> "none"]
NoRet == [op |-> "none", command |-> 0, length |-> 0, num |-> 0, str |-> ""]
NoInfo == [called |-> FALSE]

\* self.hex_data = {} (line 158); nothing has been called yet
Init ==
    /\ phase = "new"
    /\ source = NoSource
    /\ hex_data = << >>
    /\ requests = << >>
    /\ ret = NoRet
    /\ info = NoInfo
    /\ prev_info = NoInfo
    /\ clock = 0

\* DeltaPSU(hex_file=...): the constructor runs _load_hex_file
LoadHexFile ==
    /\ phase = "new"
    /\ \E lines \in CaptureFiles :
          LET r == _load_hex_file(hex_data, lines)
          IN  /\ hex_data' = r.hex_data
              /\ phase' = IF r.exc = "" THEN "ready" ELSE "failed"
              /\ source' = [kind |-> "file", lines |-> lines]
    /\ UNCHANGED <<requests, ret, info, prev_info, clock>>

\* DeltaPSU(): the constructor runs _load_smbus_data
LoadSmbus ==
    /\ phase = "new"
    /\ \E device \in Devices :
          LET r == _load_smbus_data(hex_data, device)
          IN  /\ hex_data' = r.hex_data
              /\ phase' = IF r.exc = "" THEN "ready" ELSE "failed"
              /\ source' = [kind |-> "smbus", device |-> device]
              /\ requests' = requests \o r.requests
    /\ UNCHANGED <<ret, info, prev_info, clock>>

\* The caller holds the result of its latest call: ret after a read, info
\* (and prev_info, the one before) after get_all_info.  Nothing is held
\* when Idle.
Idle == ret = NoRet /\ info = NoInfo /\ prev_info = NoInfo

ReadByte ==
    /\ phase = "ready"
    /\ Idle
    /\ \E command \in ByteCommands :
          ret' = [op |-> "read_byte", command |-> command, length |-> 0,
                  num |-> read_byte(hex_data, command), str |-> ""]
    /\ UNCHANGED <<phase, source, hex_data, requests, info, prev_info, clock>>

ReadWord ==
    /\ phase = "ready"
    /\ Idle
    /\ \E command \in WordCommands :
          ret' = [op |-> "read_word", command |-> command, length |-> 0,
                  num |-> read_word(hex_data, command), str |-> ""]
    /\ UNCHANGED <<phase, source, hex_data, requests, info, prev_info, clock>>

ReadString ==
    /\ phase = "ready"
    /\ Idle
    /\ \E command \in StringCommands, length \in StringLengths :
          ret' = [op |-> "read_string", command |-> command, length |-> length,
                  num |-> 0, str |-> read_string(hex_data, command, length)]
    /\ UNCHANGED <<phase, source, hex_data, requests, info, prev_info, clock>>

\* time does not run backwards between two calls, and may stand still
GetAllInfo ==
    /\ phase = "ready"
    /\ ret = NoRet
    /\ \E now \in clock..MaxClock :
          /\ info' = get_all_info(hex_data, now)
          /\ clock' = now
    /\ prev_info' = info
    /\ UNCHANGED <<phase, source, hex_data, requests, ret>>

\* the caller drops what it holds before its next call
Discard ==
    /\ phase = "ready"
    /\ ~Idle
    /\ ret' = NoRet
    /\ info' = NoInfo
    /\ prev_info' = NoInfo
    /\ UNCHANGED <<phase, source, hex_data, requests, clock>>

Next ==
    \/ LoadHexFile
    \/ LoadSmbus
    \/ ReadByte
    \/ ReadWord
    \/ ReadString
    \/ GetAllInfo
    \/ Discard

Spec == Init /\ [][Next]_vars

---------------------------------------------------------------------------
(* Properties.                                                             *)

\* the byte stored at an address, 0 when the address is absent
StoredByte(a) == IF a \in DOMAIN hex_data THEN hex_data[a] ELSE 0

\* the little-endian word stored at a, a+1
StoredWord(a) == StoredByte(a) + 256 * StoredByte(a + 1)

IsSnapshot(i) == "operating_parameters" \in DOMAIN i

\* C1: for a command that is neither a status command, nor the input
\* voltage, nor mode-linear, read_word returns b0 | (b1 << 8) of the bytes
\* stored at the command and the next address, absent ones counting as 0.
C1_PlainWordIsLittleEndian ==
    (/\ ret.op = "read_word"
     /\ ret.command \notin StatusCommands \cup ModeLinearCommands \cup { CMD_READ_VIN })
    => ret.num = StoredByte(ret.command) + 256 * StoredByte(ret.command + 1)

C1_Witness ==
    /\ ret.op = "read_word"
    /\ ret.command = 254
    /\ StoredByte(254) = 1
    /\ StoredByte(255) = 255
    /\ ret.num = 65281

\* The fields of the 32-bit little-endian encoding held at 0x88..0x8B.
VinEncodingX == StoredWord(136) % 2048
VinEncodingM == StoredByte(137) \div 8
VinEncodingB == StoredByte(138) + 256 * (StoredByte(139) % 8)
VinEncodingR == StoredByte(139) \div 8

\* C2: read_word(CMD_READ_VIN) returns (m*X + b) * 2^R for the fields X
\* (bits 0-10), m (11-15), b (16-26), R (27-31) of the encoding held for
\* the input voltage; an encoding with R = 2 decodes to 4*(m*X + b).
\* (Stated for exponents up to 4.)
C2_VinDecodesAllFourFields ==
    (/\ ret.op = "read_word"
     /\ ret.command = CMD_READ_VIN
     /\ VinEncodingR <= 4)
    => ret.num = (VinEncodingM * VinEncodingX + VinEncodingB) * 2^VinEncodingR

\* C3: for a mode-linear command c, read_word returns (m*raw + b) * 10^R,
\* raw the little-endian word at c, c+1 and m = bits 3-7, b = bits 0-2,
\* R = bits 3-7 of the byte stored at c - 0x80.
C3_ModeLinearFormula ==
    (ret.op = "read_word" /\ ret.command \in ModeLinearCommands)
    => LET mode == StoredByte(ret.command - 128)
           raw == StoredWord(ret.command)
       IN  ret.num = ((mode \div 8) * raw + (mode % 8)) * 10^(mode \div 8)

C3_Witness ==
    /\ ret.op = "read_word"
    /\ ret.command = CMD_READ_POUT
    /\ StoredByte(22) = 9
    /\ StoredWord(150) = 818
    /\ ret.num = 8190

\* C4 as stated: raw value 200 under a mode byte whose coefficient bits are
\* 2 and whose offset bits are 3 decodes to (2*200+3)*10 = 4030.
C4_Decodes4030 ==
    (/\ ret.op = "read_word"
     /\ ret.command \in ModeLinearCommands
     /\ StoredWord(ret.command) = 200
     /\ StoredByte(ret.command - 128) \div 8 = 2
     /\ StoredByte(ret.command - 128) % 8 = 3)
    => ret.num = 4030

\* C4 amended: raw value 200 under mode byte 0x13 (m = 2, b = 3, and R = 2,
\* being the same bits as m) decodes to (2*200+3)*100 = 40300.
C4_Decodes40300 ==
    (/\ ret.op = "read_word"
     /\ ret.command \in ModeLinearCommands
     /\ StoredWord(ret.command) = 200
     /\ StoredByte(ret.command - 128) = 19)
    => ret.num = 40300

C4_Witness ==
    /\ ret.op = "read_word"
    /\ ret.command = CMD_READ_VOUT
    /\ StoredWord(139) = 200
    /\ StoredByte(11) = 19
    /\ ret.num = 40300

\* the window of addresses read_string(command, length) covers
ClaimedWindow(command, length) ==
    IF command = CMD_MFR_ID THEN [k \in 1..5 |-> StoredByte(11 + k)]
    ELSE IF command = CMD_MFR_MODEL THEN [k \in 1..11 |-> StoredByte(15 + k)]
    ELSE IF command = CMD_MFR_SERIAL THEN [k \in 1..12 |-> StoredByte(47 + k)]
    ELSE [k \in 1..length |-> StoredByte(command + k - 1)]

IsAsciiPrintable(x) == x \in 32..126

\* the characters of codes, in order, built from the last one backwards
RECURSIVE AsciiText(_)
AsciiText(codes) ==
    IF Len(codes) = 0 THEN ""
    ELSE AsciiText(SubSeq(codes, 1, Len(codes) - 1)) \o AsciiTable[codes[Len(codes)] - 31]

\* C5: read_string returns, in address order, exactly the bytes of its
\* window that lie in 32..126, as ASCII characters; zero and other bytes
\* are dropped, and the result is empty when none remain.
C5_StringIsPrintableSubsequence ==
    ret.op = "read_string"
    => ret.str = AsciiText(SelectSeq(ClaimedWindow(ret.command, ret.length), IsAsciiPrintable))

C5_Witness ==
    /\ ret.op = "read_string"
    /\ ret.command = 11
    /\ ret.length = 7
    /\ ClaimedWindow(11, 7) = << 0, 68, 69, 76, 84, 65, 0 >>
    /\ ret.str = "DELTA"

\* C6: read_word of status command 0x79+k returns the little-endian word
\* at 2k, 2k+1, whatever is stored at 0x79+k and 0x79+k+1; the snapshot's
\* status group and get_status carry the same words.
C6_StatusWordsAreRedirected ==
    /\ \A k \in 0..6 :
          (ret.op = "read_word" /\ ret.command = 121 + k)
          => /\ ret.num = StoredWord(2 * k)
             /\ \A a \in { 121 + k, 122 + k }, v \in { 0, 1, 255 } :
                   read_word(SetItem(hex_data, a, v), 121 + k) = ret.num
    /\ (IsSnapshot(info) /\ phase = "ready")
       => /\ info.status.status_word = StoredWord(0)
          /\ info.status.status_vout = StoredWord(2)
          /\ info.status.status_iout = StoredWord(4)
          /\ info.status.status_input = StoredWord(6)
          /\ info.status.status_temperature = StoredWord(8)
          /\ info.status.status_cml = StoredWord(10)
          /\ info.status.status_other = StoredWord(12)
          /\ get_status(hex_data) = StoredWord(0)

C6_Witness ==
    /\ ret.op = "read_word"
    /\ ret.command = CMD_STATUS_WORD
    /\ StoredByte(0) = 52
    /\ StoredByte(1) = 18
    /\ StoredByte(121) = 7
    /\ ret.num = 4660

\* C7: in the snapshot, efficiency (in hundredths) is output_power /
\* input_power * 100 rounded to two decimals when the decoded input power
\* is positive, and 0 when it is 0; get_all_info does not end in the error
\* object.
C7_Efficiency ==
    "called" \notin DOMAIN info
    => /\ "error" \notin DOMAIN info
       /\ IsSnapshot(info)
       /\ LET op == info.operating_parameters
              pin == op.input_power
              pout == op.output_power
              diff == op.efficiency * pin - 10000 * pout
          IN  /\ pin = read_word(hex_data, CMD_READ_PIN)
              /\ pout = read_word(hex_data, CMD_READ_POUT)
              /\ pin > 0 => (2 * diff <= pin /\ -2 * diff <= pin)
              /\ pin = 0 => op.efficiency = 0

C7_Witness ==
    /\ IsSnapshot(info)
    /\ info.operating_parameters.input_power = 2590
    /\ info.operating_parameters.output_power = 8190
    /\ info.operating_parameters.efficiency = 31622

EmptyBuffer == phase = "ready" /\ DOMAIN hex_data = {}

NumericGroups ==
    { "operating_parameters", "temperatures", "fan_speeds", "status",
      "fault_limits", "timing_parameters" }

StringFields == { "ID", "Model", "Revision", "Location", "Date", "Serial" }

\* every quantity of what the caller holds is the number 0 or the string missing
EmptyDecode(missing) ==
    /\ ret.op \in { "read_byte", "read_word" } => ret.num = 0
    /\ ret.op = "read_string" => ret.str = missing
    /\ "called" \notin DOMAIN info
       => /\ IsSnapshot(info)
          /\ \A g \in NumericGroups : \A k \in DOMAIN info[g] : info[g][k] = 0
          /\ \A k \in StringFields : info.manufacturer_info[k] = missing
          /\ info.manufacturer_info["PMBus Revision"] = 0

\* C9 as stated: on an empty buffer every decoded quantity is the number
\* zero or the string "Not Available".
C9_EmptyDecodesToNotAvailable == EmptyBuffer => EmptyDecode("Not Available")

\* C9 amended: on an empty buffer every decoded number is zero and every
\* decoded string is the empty string; nothing raises.
C9_EmptyDecodesToEmptyString == EmptyBuffer => EmptyDecode("")

C9_Witness ==
    /\ EmptyBuffer
    /\ source.kind = "file"
    /\ IsSnapshot(info)
    /\ info.manufacturer_info.ID = ""
    /\ info.operating_parameters.efficiency = 0

\* C10: after loading the capture "header / 00: 44 45 4c 54 41", decoding
\* the manufacturer ID with read_string(CMD_MFR_ID) yields "DELTA".
C10_CaptureRoundTrip ==
    (/\ phase = "ready"
     /\ source = [kind |-> "file", lines |-> << HeaderLine, LineDeltaAt00 >>]
     /\ ret.op = "read_string"
     /\ ret.command = CMD_MFR_ID)
    => ret.str = "DELTA"

\* The tokens of a capture line as its text reads: "00: 44 45" is the
\* offset token "00:" followed by the byte tokens "44" and "45".
LineTokens(line) == Split(Strip(line))

OffsetText(line) == SubSeq(LineTokens(line)[1], 1, Len(LineTokens(line)[1]) - 1)

ByteTexts(line) == Tail(LineTokens(line))

IsHexText(text) == text # << >> /\ \A k \in 1..Len(text) : IsHexDigit(text[k])

\* the line has the shape "<hex-offset>: <hex-byte> <hex-byte> ..."
IsDataLine(line) ==
    /\ LineTokens(line) # << >>
    /\ Len(LineTokens(line)[1]) >= 2
    /\ LineTokens(line)[1][Len(LineTokens(line)[1])] = ":"
    /\ IsHexText(OffsetText(line))
    /\ \A k \in 1..Len(ByteTexts(line)) :
          Len(ByteTexts(line)[k]) = 2 /\ IsHexText(ByteTexts(line)[k])

\* the buffer in which every byte v0..v(n-1) of a data line is at offset+i
RECURSIVE AllBytesStored(_, _, _)
AllBytesStored(hex, line, i) ==
    IF i >= Len(ByteTexts(line)) THEN hex
    ELSE AllBytesStored(
             SetItem(hex, DigitsValue(OffsetText(line), 0) + i,
                     DigitsValue(ByteTexts(line)[i + 1], 0)),
             line, i + 1)

\* the same over the data lines of a file, in file order (the latest wins)
RECURSIVE AllLinesStored(_, _)
AllLinesStored(hex, lines) ==
    IF lines = << >> THEN hex
    ELSE AllLinesStored(
             IF IsDataLine(Head(lines)) THEN AllBytesStored(hex, Head(lines), 0) ELSE hex,
             Tail(lines))

\* C11 as stated: after a capture file is loaded, every byte of every data
\* line after the header, the last byte of the line included, is in the
\* buffer at offset+i, an address set by several lines holding the value of
\* the latest one in file order.
C11_EveryByteOfALineIsStored ==
    (source.kind = "file" /\ phase = "ready")
    => LET claimed == AllLinesStored(<< >>, Tail(source.lines))
       IN  \A a \in DOMAIN claimed :
              a \in DOMAIN hex_data /\ hex_data[a] = claimed[a]

\* the capture file without the lines that do not have the data-line shape
WithoutMalformedLines(lines) == << Head(lines) >> \o SelectSeq(Tail(lines), IsDataLine)

\* C12 as stated: a line that does not have the shape "<hex-offset>:
\* <hex-byte> ..." is skipped: the load does not raise, and the buffer is the
\* one the same file gives with those lines taken out.
C12_MalformedLinesAreSkipped ==
    (source.kind = "file" /\ phase # "new")
    => /\ phase = "ready"
       /\ hex_data = _load_hex_file(<< >>, WithoutMalformedLines(source.lines)).hex_data

\* C13: live population issues exactly one read per address, 0, 1, ...,
\* 255 in that order; whichever reads fail, the constructor returns, the
\* buffer holds exactly the addresses 0..255, 0 at every address whose read
\* failed and the byte the device returned at every other.
C13_LivePopulationIsTotal ==
    (source.kind = "smbus" /\ phase # "new")
    => /\ phase = "ready"
       /\ requests = [k \in 1..256 |-> k - 1]
       /\ DOMAIN hex_data = 0..255
       /\ \A a \in 0..255 :
             hex_data[a] = IF source.device[a] = NACK THEN 0 ELSE source.device[a]

C13_Witness ==
    /\ source.kind = "smbus"
    /\ phase = "ready"
    /\ source.device[12] = NACK
    /\ source.device[13] = 69
    /\ source.device[255] = NACK
    /\ Len(requests) = 256
    /\ hex_data[12] = 0
    /\ hex_data[13] = 69
    /\ hex_data[255] = 0

\* the seven groups of a snapshot and the fields of each
GroupFields ==
    [ manufacturer_info |->
          { "ID", "Model", "Revision", "Location", "Date", "Serial", "PMBus Revision" },
      operating_parameters |->
          { "input_voltage", "output_voltage", "output_current", "temperature",
            "fan_speed", "switching_frequency", "duty_cycle", "input_power",
            "output_power", "efficiency" },
      temperatures |-> { "temp1", "temp2", "temp3" },
      fan_speeds |-> { "fan1", "fan2", "fan3", "fan4" },
      status |->
          { "status_word", "status_vout", "status_iout", "status_input",
            "status_temperature", "status_cml", "status_other" },
      fault_limits |->
          { "iout_oc_fault_limit", "iout_oc_warn_limit", "ot_fault_limit",
            "ot_warn_limit", "ut_fault_limit", "ut_warn_limit",
            "vin_uv_fault_limit", "vin_uv_warn_limit", "vin_ov_fault_limit",
            "vin_ov_warn_limit", "iin_oc_fault_limit", "iin_oc_warn_limit" },
      timing_parameters |-> { "ton_delay", "ton_rise", "toff_delay", "toff_fall" } ]

IsFullSnapshot(i) ==
    /\ "error" \notin DOMAIN i
    /\ \A g \in DOMAIN GroupFields : g \in DOMAIN i /\ DOMAIN i[g] = GroupFields[g]

IsErrorObject(i) == DOMAIN i = { "error" } /\ i.error # ""

\* C14: whatever get_all_info returned is either a mapping with all seven
\* groups, each holding all of its fields, or a mapping whose only key is
\* error, carrying a description; never a partly filled mapping.
C14_SnapshotIsWholeOrError ==
    /\ "called" \notin DOMAIN info => (IsFullSnapshot(info) \/ IsErrorObject(info))
    /\ "called" \notin DOMAIN prev_info => (IsFullSnapshot(prev_info) \/ IsErrorObject(prev_info))

C14_Witness ==
    /\ "called" \notin DOMAIN info
    /\ IsFullSnapshot(info)
    /\ Cardinality(DOMAIN info) = 9
    /\ info.temperatures.temp3 > 0
    /\ info.operating_parameters.efficiency > 0

\* C15 as stated: once a producer has populated the buffer, every key is an
\* address in 0..255 and every value a byte in 0..255.
C15_BufferIsBytesAtByteAddresses ==
    phase = "ready"
    => \A key \in DOMAIN hex_data : key \in 0..255 /\ hex_data[key] \in 0..255

=============================================================================
